---- MODULE Spec2Model ----
(***************************************************************************)
(* Model of 01_LectureNotes/03_GeospatialDataScience.ipynb: the notebook's *)
(* code cells run top to bottom ("Run All"); the first exception stops the *)
(* run.  The kernel's global names (sc, gdf, gdf_reg, ncr, sc_gdf,         *)
(* ncr_roads, ax) are the state; the files the cells read are the input.   *)
(* Library calls (pandas, geopandas, matplotlib) are modelled by what they *)
(* do to those values.                                                     *)
(***************************************************************************)
EXTENDS Integers, Sequences, FiniteSets, TLC

VARIABLES pc, fs, sc, gdf, gdf_reg, ncr, sc_gdf, ncr_roads, ax, images, printed, err

vars == <<pc, fs, sc, gdf, gdf_reg, ncr, sc_gdf, ncr_roads, ax, images, printed, err>>

data == <<sc, gdf, gdf_reg, ncr, sc_gdf, ncr_roads, ax, images, printed>>

\* Bounds of the model: the longest boundary attribute table and the longest
\* shopping-centre table that the input files hold.
MaxFeatures == 2
MaxRecords == 2

(***************************************************************************)
(* Scalar values of a table cell: a number, NaN (an empty spreadsheet      *)
(* cell), a text, or null.  All have the same fields so that any two       *)
(* compare.                                                                *)
(***************************************************************************)
Num(k) == [t |-> "num", n |-> k, s |-> ""]
NaN == [t |-> "nan", n |-> 0, s |-> ""]
Str(x) == [t |-> "str", n |-> 0, s |-> x]
Null == [t |-> "null", n |-> 0, s |-> ""]

\* Coordinate reference systems a file may declare; NoCRS is Python's None
\* (a shapefile without a .prj).
NoCRS == "None"
EPSG4326 == "EPSG:4326"
CRSs == {NoCRS, EPSG4326, "EPSG:32651"}

NCRName == "National Capital Region (NCR)"

\* A name that is not bound in the kernel yet.
Unbound == [bound |-> FALSE, crs |-> NoCRS, cols |-> {}, rows |-> <<>>]

Frame(crs, cols, rows) == [bound |-> TRUE, crs |-> crs, cols |-> cols, rows |-> rows]

Geom(kind, x, y) == [kind |-> kind, x |-> x, y |-> y]

(***************************************************************************)
(* The input: the files on disk.                                           *)
(***************************************************************************)
NoFile(status) == [status |-> status, crs |-> NoCRS, cols |-> {}, rows |-> <<>>]

\* The rows of a vector file with one attribute column `col` (or none) whose
\* values are vals[1..n]; idx is the row label pandas gives (0, 1, ...).
MkRows(vals, cols, kind) ==
    [i \in 1..Len(vals) |->
        [idx |-> i - 1,
         attrs |-> [c \in cols |-> vals[i]],
         geom |-> Geom(kind, Num(i), Num(i))]]

NameVals == {Str(NCRName), Str("Region I (Ilocos Region)"), Null}

Adm1Files ==
    {NoFile("missing"), NoFile("corrupt")}
    \cup {[status |-> "ok", crs |-> c, cols |-> {"ADM1_EN"},
           rows |-> MkRows(v, {"ADM1_EN"}, "Polygon")] :
            c \in CRSs, v \in UNION {[1..n -> NameVals] : n \in 0..MaxFeatures}}
    \cup {[status |-> "ok", crs |-> EPSG4326, cols |-> {},
           rows |-> MkRows(<<Null>>, {}, "Polygon")]}

Adm2Files ==
    {NoFile("missing"),
     [status |-> "ok", crs |-> EPSG4326, cols |-> {"ADM2_EN"},
      rows |-> MkRows(<<Str("Metropolitan Manila First District")>>, {"ADM2_EN"}, "Polygon")],
     [status |-> "ok", crs |-> NoCRS, cols |-> {"ADM2_EN"},
      rows |-> MkRows(<<Str("Metropolitan Manila First District")>>, {"ADM2_EN"}, "Polygon")],
     [status |-> "ok", crs |-> EPSG4326, cols |-> {},
      rows |-> MkRows(<<Null>>, {}, "Polygon")]}

RoadFiles ==
    {NoFile("missing"), NoFile("corrupt")}
    \cup {[status |-> "ok", crs |-> c, cols |-> {"name"},
           rows |-> MkRows(<<Str("EDSA")>>, {"name"}, "LineString")] : c \in CRSs}
    \cup {[status |-> "ok", crs |-> EPSG4326, cols |-> {"name"}, rows |-> <<>>]}

\* A spreadsheet row: longitude, latitude and the centre's name.
CoordPairs ==
    { <<Num(121), Num(14)>>, <<Num(120), Num(15)>>, <<NaN, Num(14)>>,
      <<Num(121), Str("abc")>>, <<Str("15"), Num(14)>> }

\* Column sets of a sheet that lacks a designated column.
ScColumnSets == { {"lat", "name"}, {"long", "name"} }

ScCell(pair, i, c) ==
    IF c = "long" THEN pair[1]
    ELSE IF c = "lat" THEN pair[2]
    ELSE IF i = 1 THEN Str("Mall A") ELSE Str("Mall B")

ScRows(pairs, cols) ==
    [i \in 1..Len(pairs) |->
        [idx |-> i - 1,
         attrs |-> [c \in cols |-> ScCell(pairs[i], i, c)],
         geom |-> Geom("None", Null, Null)]]

ScFiles ==
    {NoFile("missing")}
    \cup {[status |-> "ok", crs |-> NoCRS, cols |-> {"long", "lat", "name"},
           rows |-> ScRows(p, {"long", "lat", "name"})] :
            p \in UNION {[1..n -> CoordPairs] : n \in 0..MaxRecords}}
    \cup {[status |-> "ok", crs |-> NoCRS, cols |-> cs, rows |-> ScRows(p, cs)] :
            cs \in ScColumnSets,
            p \in UNION {[1..n -> {<<Num(121), Num(14)>>}] : n \in 0..MaxRecords}}

(***************************************************************************)
(* Library calls.  A call that may raise returns [ok, exc, val].           *)
(***************************************************************************)
Ok(v) == [ok |-> TRUE, exc |-> "", val |-> v]
Raised(e) == [ok |-> FALSE, exc |-> e, val |-> Unbound]

\* pd.read_excel(path): the sheet as a DataFrame; a DataFrame has no CRS and no
\* geometry.
ReadExcel(f) ==
    IF f.status = "missing" THEN Raised("FileNotFoundError")
    ELSE Ok(Frame(NoCRS, f.cols, f.rows))

\* gpd.read_file(path): the file's features in file order, the attribute table
\* as columns, and crs set to the CRS the file declares (None if it declares
\* none).  A path that does not exist or cannot be parsed raises.
ReadFile(f) ==
    IF f.status = "missing" THEN Raised("DataSourceError: No such file or directory")
    ELSE IF f.status = "corrupt" THEN Raised("DataSourceError: not recognized as a supported file format")
    ELSE Ok(Frame(f.crs, f.cols, f.rows))

\* df[col]: the column's values in row order; a column the table lacks raises
\* KeyError (df[col]) or AttributeError (df.col).
Column(df, col, exc) ==
    IF col \in df.cols THEN Ok([i \in 1..Len(df.rows) |-> df.rows[i].attrs[col]])
    ELSE Raised(exc)

\* series == literal: elementwise; a null or a number never equals a text.
EqMask(series, lit) ==
    [i \in 1..Len(series) |-> series[i].t = "str" /\ series[i].s = lit]

RECURSIVE MaskRows(_, _)
MaskRows(rows, mask) ==
    IF rows = <<>> THEN <<>>
    ELSE (IF Head(mask) THEN <<Head(rows)>> ELSE <<>>)
         \o MaskRows(Tail(rows), Tail(mask))

BoolIndexFirstOnly(df, mask) ==
    LET kept == MaskRows(df.rows, mask)
    IN Frame(df.crs, df.cols, IF kept = <<>> THEN <<>> ELSE <<Head(kept)>>)

\* df[mask]: a new GeoDataFrame of the rows whose mask entry is True, in row
\* order, each with its row label, the same columns and the same crs.
BoolIndex(df, mask) ==
    Frame(df.crs, df.cols, MaskRows(df.rows, mask))

\* Texts that float() parses, with the number each parses to.
FloatLiterals == [s \in {"15"} |-> 15]

\* np.asarray(x, dtype="float64") on one value: a number stays, NaN and None
\* become NaN, a text is parsed by float() and raises ValueError if it is no
\* number.
ToFloat64(v) ==
    IF v.t = "num" THEN Ok(v)
    ELSE IF v.t \in {"nan", "null"} THEN Ok(NaN)
    ELSE IF v.s \in DOMAIN FloatLiterals THEN Ok(Num(FloatLiterals[v.s]))
    ELSE Raised("ValueError: could not convert string to float")

PointsFromXYSwapped(xs, ys) ==
    IF \E i \in 1..Len(xs) : ~ToFloat64(xs[i]).ok \/ ~ToFloat64(ys[i]).ok
    THEN Raised("ValueError: could not convert string to float")
    ELSE Ok([i \in 1..Len(xs) |->
                Geom("Point", ToFloat64(ys[i]).val, ToFloat64(xs[i]).val)])

\* gpd.points_from_xy(x, y): both columns converted to float64, then one Point
\* per position at (x[i], y[i]).  NaN is a float64, so it converts and the
\* Point is built at NaN.
PointsFromXY(xs, ys) ==
    IF \E i \in 1..Len(xs) : ~ToFloat64(xs[i]).ok \/ ~ToFloat64(ys[i]).ok
    THEN Raised("ValueError: could not convert string to float")
    ELSE Ok([i \in 1..Len(xs) |->
                Geom("Point", ToFloat64(xs[i]).val, ToFloat64(ys[i]).val)])

\* gpd.GeoDataFrame(df, geometry=points): df's rows and columns with points[i]
\* as the geometry of row i; no crs yet.
GeoDataFrame(df, points) ==
    Frame(NoCRS, df.cols,
          [i \in 1..Len(df.rows) |->
              [idx |-> df.rows[i].idx, attrs |-> df.rows[i].attrs, geom |-> points[i]]])

\* frame.crs = value
SetCRS(df, crs) == Frame(crs, df.cols, df.rows)

(***************************************************************************)
(* Plotting.  An Axes is the sequence of the artists added to it.          *)
(***************************************************************************)
SubplotsReuse == ax

\* plt.subplots(): a new Figure with one empty Axes.
Subplots == <<>>

\* matplotlib's default zorder: 2 for a LineCollection, 1 for a PatchCollection
\* (polygons) and for the PathCollection that scatter() makes (points).
ZOrder(kind) == IF kind = "LineString" THEN 2 ELSE 1

RowsOfKind(df, kind) == SelectSeq(df.rows, LAMBDA r : r.geom.kind = kind)

Artist(df, kind, layer, color) ==
    IF RowsOfKind(df, kind) = <<>> THEN <<>>
    ELSE << [layer |-> layer, kind |-> kind, zorder |-> ZOrder(kind), crs |-> df.crs,
             color |-> color,
             idxs |-> [i \in 1..Len(RowsOfKind(df, kind)) |-> RowsOfKind(df, kind)[i].idx]] >>

\* df.plot(ax=ax, ...): nothing for an empty frame (a warning); else one
\* collection for the polygons, one for the lines, one for the points, added
\* to the Axes in that order, with the coordinates as stored (no reprojection,
\* no look at df.crs).
Plot(axes, df, layer, color) ==
    IF df.rows = <<>> THEN axes
    ELSE axes \o Artist(df, "Polygon", layer, color)
              \o Artist(df, "LineString", layer, color)
              \o Artist(df, "Point", layer, color)

Layer(df, layer, color) == [df |-> df, layer |-> layer, color |-> color]

RECURSIVE PlotAll(_, _)
PlotAll(axes, layers) ==
    IF layers = <<>> THEN axes
    ELSE PlotAll(Plot(axes, Head(layers).df, Head(layers).layer, Head(layers).color),
                 Tail(layers))

\* a goes after every artist whose zorder is not greater than its own.
RECURSIVE InsertByZOrder(_, _)
InsertByZOrder(a, sorted) ==
    IF sorted = <<>> THEN <<a>>
    ELSE IF Head(sorted).zorder <= a.zorder
         THEN <<Head(sorted)>> \o InsertByZOrder(a, Tail(sorted))
         ELSE <<a>> \o sorted

RECURSIVE SortByZOrder(_, _)
SortByZOrder(axes, sorted) ==
    IF axes = <<>> THEN sorted
    ELSE SortByZOrder(Tail(axes), InsertByZOrder(Head(axes), sorted))

PaintOrderAsAdded(axes) == axes

\* Axes.draw: the artists sorted by zorder (a stable sort), painted first to
\* last, so the last one is on top.
PaintOrder(axes) == SortByZOrder(axes, <<>>)

\* fig, ax = plt.subplots(); <layer>.plot(ax=ax, ...) for each layer in turn;
\* plt.show().  An image is the Axes' artists as added and as painted.
Render(layers) ==
    /\ ax' = PlotAll(Subplots, layers)
    /\ images' = Append(images, [cell |-> pc, added |-> ax', painted |-> PaintOrder(ax')])

(***************************************************************************)
(* The run.                                                                *)
(***************************************************************************)
NoError == [cell |-> "", exc |-> ""]

Init ==
    /\ pc = "cell4"
    /\ \E s \in ScFiles, a2 \in Adm2Files, a1 \in Adm1Files, r \in RoadFiles :
          fs = [sc |-> s, adm2 |-> a2, adm1 |-> a1, roads |-> r]
    /\ sc = Unbound
    /\ gdf = Unbound
    /\ gdf_reg = Unbound
    /\ ncr = Unbound
    /\ sc_gdf = Unbound
    /\ ncr_roads = Unbound
    /\ ax = <<>>
    /\ images = <<>>
    /\ printed = <<>>
    /\ err = NoError

RaiseAndReset(exc) ==
    /\ pc' = "aborted"
    /\ err' = [cell |-> pc, exc |-> exc]
    /\ sc' = Unbound /\ gdf' = Unbound /\ gdf_reg' = Unbound /\ ncr' = Unbound
    /\ sc_gdf' = Unbound /\ ncr_roads' = Unbound
    /\ ax' = <<>> /\ images' = <<>> /\ printed' = <<>>
    /\ UNCHANGED fs

\* An uncaught exception: the cell stops at the raising statement and the run
\* stops at that cell; the names bound so far stay bound.
Raise(exc) ==
    /\ pc' = "aborted"
    /\ err' = [cell |-> pc, exc |-> exc]
    /\ UNCHANGED <<fs, data>>

\* sc = pd.read_excel(...)
Cell4 ==
    /\ pc = "cell4"
    /\ LET r == ReadExcel(fs.sc)
       IN IF r.ok
          THEN /\ sc' = r.val
               /\ pc' = "cell5"
               /\ UNCHANGED <<fs, gdf, gdf_reg, ncr, sc_gdf, ncr_roads, ax, images, printed, err>>
          ELSE Raise(r.exc)

\* gdf = gpd.read_file(adm2); print(gdf.crs)
Cell5 ==
    /\ pc = "cell5"
    /\ LET r == ReadFile(fs.adm2)
       IN IF r.ok
          THEN /\ gdf' = r.val
               /\ printed' = Append(printed, r.val.crs)
               /\ pc' = "cell6"
               /\ UNCHANGED <<fs, sc, gdf_reg, ncr, sc_gdf, ncr_roads, ax, images, err>>
          ELSE Raise(r.exc)

\* gdf.info()
Cell6 ==
    /\ pc = "cell6"
    /\ printed' = Append(printed, "info")
    /\ pc' = "cell7"
    /\ UNCHANGED <<fs, sc, gdf, gdf_reg, ncr, sc_gdf, ncr_roads, ax, images, err>>

\* gdf['ADM2_EN'].value_counts()
Cell7 ==
    /\ pc = "cell7"
    /\ LET col == Column(gdf, "ADM2_EN", "KeyError")
       IN IF col.ok
          THEN /\ pc' = "cell8"
               /\ UNCHANGED <<fs, data, err>>
          ELSE Raise(col.exc)

\* gdf.plot on a new figure
Cell8 ==
    /\ pc = "cell8"
    /\ Render(<<Layer(gdf, "gdf", "white")>>)
    /\ pc' = "cell9"
    /\ UNCHANGED <<fs, sc, gdf, gdf_reg, ncr, sc_gdf, ncr_roads, printed, err>>

\* gdf_reg = gpd.read_file(adm1); gdf_reg.plot on a new figure
Cell9 ==
    /\ pc = "cell9"
    /\ LET r == ReadFile(fs.adm1)
       IN IF r.ok
          THEN /\ gdf_reg' = r.val
               /\ Render(<<Layer(r.val, "gdf_reg", "white")>>)
               /\ pc' = "cell10"
               /\ UNCHANGED <<fs, sc, gdf, ncr, sc_gdf, ncr_roads, printed, err>>
          ELSE Raise(r.exc)

Cell10RaiseOnEmpty ==
    /\ pc = "cell10"
    /\ LET col == Column(gdf_reg, "ADM1_EN", "KeyError")
       IN IF col.ok /\ BoolIndex(gdf_reg, EqMask(col.val, NCRName)).rows # <<>>
          THEN LET out == BoolIndex(gdf_reg, EqMask(col.val, NCRName))
               IN /\ ncr' = out
                  /\ Render(<<Layer(out, "ncr", "white")>>)
                  /\ pc' = "cell11"
                  /\ UNCHANGED <<fs, sc, gdf, gdf_reg, sc_gdf, ncr_roads, printed, err>>
          ELSE Raise(IF col.ok THEN "ValueError: empty result" ELSE col.exc)

Cell10InPlace ==
    /\ pc = "cell10"
    /\ LET col == Column(gdf_reg, "ADM1_EN", "KeyError")
       IN IF col.ok
          THEN LET out == BoolIndex(gdf_reg, EqMask(col.val, NCRName))
               IN /\ ncr' = out
                  /\ gdf_reg' = out
                  /\ Render(<<Layer(out, "ncr", "white")>>)
                  /\ pc' = "cell11"
                  /\ UNCHANGED <<fs, sc, gdf, sc_gdf, ncr_roads, printed, err>>
          ELSE Raise(col.exc)

\* ncr = gdf_reg[gdf_reg['ADM1_EN'] == "National Capital Region (NCR)"];
\* ncr.plot on a new figure
Cell10 ==
    /\ pc = "cell10"
    /\ LET col == Column(gdf_reg, "ADM1_EN", "KeyError")
       IN IF col.ok
          THEN LET out == BoolIndex(gdf_reg, EqMask(col.val, NCRName))
               IN /\ ncr' = out
                  /\ Render(<<Layer(out, "ncr", "white")>>)
                  /\ pc' = "cell11"
                  /\ UNCHANGED <<fs, sc, gdf, gdf_reg, sc_gdf, ncr_roads, printed, err>>
          ELSE Raise(col.exc)

\* gpd.GeoDataFrame(sc, geometry=gpd.points_from_xy(sc.long, sc.lat)) with
\* crs = {'init': 'epsg:4326'} assigned after: the attribute access sc.long or
\* sc.lat raises if the column is absent, the conversion raises on a text that
\* is no number.
Builder(df) ==
    LET xs == Column(df, "long", "AttributeError")
        ys == Column(df, "lat", "AttributeError")
    IN IF ~xs.ok THEN Raised(xs.exc)
       ELSE IF ~ys.ok THEN Raised(ys.exc)
       ELSE LET pts == PointsFromXY(xs.val, ys.val)
            IN IF ~pts.ok THEN Raised(pts.exc)
               ELSE Ok(SetCRS(GeoDataFrame(df, pts.val), EPSG4326))

\* sc_gdf = Builder(sc); ncr.plot and sc_gdf.plot on a new figure
Cell11 ==
    /\ pc = "cell11"
    /\ LET b == Builder(sc)
       IN IF b.ok
          THEN /\ sc_gdf' = b.val
               /\ Render(<<Layer(ncr, "ncr", "white"), Layer(b.val, "sc_gdf", "red")>>)
               /\ pc' = "cell12"
               /\ UNCHANGED <<fs, sc, gdf, gdf_reg, ncr, ncr_roads, printed, err>>
          ELSE Raise(b.exc)

\* ncr_roads = gpd.read_file(roads); ncr_roads.plot, ncr.plot and sc_gdf.plot
\* on a new figure
Cell12 ==
    /\ pc = "cell12"
    /\ LET r == ReadFile(fs.roads)
       IN IF r.ok
          THEN /\ ncr_roads' = r.val
               /\ Render(<<Layer(r.val, "ncr_roads", "black"),
                           Layer(ncr, "ncr", "white"),
                           Layer(sc_gdf, "sc_gdf", "red")>>)
               /\ pc' = "done"
               /\ UNCHANGED <<fs, sc, gdf, gdf_reg, ncr, sc_gdf, printed, err>>
          ELSE Raise(r.exc)

Next ==
    \/ Cell4
    \/ Cell5
    \/ Cell6
    \/ Cell7
    \/ Cell8
    \/ Cell9
    \/ Cell10
    \/ Cell11
    \/ Cell12

Spec == Init /\ [][Next]_vars

(***************************************************************************)
(* Properties.                                                             *)
(***************************************************************************)
\* The predicate of the notebook's Filter, on one Feature.
IsNCR(f) == f.attrs["ADM1_EN"] = Str(NCRName)

\* The layers each cell passes to its render, bottom to top.
CellLayers(cell) ==
    CASE cell = "cell8" -> <<"gdf">>
      [] cell = "cell9" -> <<"gdf_reg">>
      [] cell = "cell10" -> <<"ncr">>
      [] cell = "cell11" -> <<"ncr", "sc_gdf">>
      [] cell = "cell12" -> <<"ncr_roads", "ncr", "sc_gdf">>
      [] OTHER -> <<>>

FrameOf(name) ==
    CASE name = "gdf" -> gdf
      [] name = "gdf_reg" -> gdf_reg
      [] name = "ncr" -> ncr
      [] name = "sc_gdf" -> sc_gdf
      [] name = "ncr_roads" -> ncr_roads
      [] OTHER -> sc

LayerNames(artists) == [i \in 1..Len(artists) |-> artists[i].layer]

Range(seq) == {seq[i] : i \in 1..Len(seq)}

\* The Filter cell has been run (to its end or to an exception).
FilterRan ==
    \/ pc \in {"cell11", "cell12", "done"}
    \/ pc = "aborted" /\ err.cell \in {"cell10", "cell11", "cell12"}

\* C1: once the Filter has returned (the collection has the attribute the
\* predicate names), ncr holds exactly the Features of gdf_reg that satisfy
\* the predicate: each returned Feature satisfies it and is a Feature of
\* gdf_reg, each Feature of gdf_reg that satisfies it is returned exactly
\* once, and the returned Features are in the order they have in gdf_reg.
C1_FilterExact ==
    ncr.bound =>
        LET F == gdf_reg.rows
            O == ncr.rows
        IN /\ \A i \in 1..Len(O) : IsNCR(O[i]) /\ O[i] \in Range(F)
           /\ \A j \in 1..Len(F) :
                 IsNCR(F[j]) => Cardinality({i \in 1..Len(O) : O[i] = F[j]}) = 1
           /\ \A i, k \in 1..Len(O) :
                 i < k => \E j, l \in 1..Len(F) : j < l /\ F[j] = O[i] /\ F[l] = O[k]

C1_Witness ==
    /\ ncr.bound
    /\ Len(gdf_reg.rows) = 2
    /\ ~IsNCR(gdf_reg.rows[1])
    /\ Len(ncr.rows) = 1
    /\ ncr.rows[1] = gdf_reg.rows[2]

ValidNumber(v) == v.t = "num"

AllCoordinatesValid(df) ==
    /\ {"long", "lat"} \subseteq df.cols
    /\ \A i \in 1..Len(df.rows) :
          ValidNumber(df.rows[i].attrs["long"]) /\ ValidNumber(df.rows[i].attrs["lat"])

\* C2: when every longitude and latitude of the table is a valid number, the
\* Builder's collection has one Point Feature per record, in record order, at
\* exactly (longitude, latitude) of that record, with all the record's columns
\* unchanged, and is tagged with the CRS identifier given to the Builder
\* (EPSG:4326 in the notebook).
C2_BuilderExact ==
    (sc_gdf.bound /\ AllCoordinatesValid(sc)) =>
        /\ Len(sc_gdf.rows) = Len(sc.rows)
        /\ sc_gdf.cols = sc.cols
        /\ sc_gdf.crs = "EPSG:4326"
        /\ \A i \in 1..Len(sc.rows) :
              /\ sc_gdf.rows[i].idx = sc.rows[i].idx
              /\ sc_gdf.rows[i].attrs = sc.rows[i].attrs
              /\ sc_gdf.rows[i].geom.kind = "Point"
              /\ sc_gdf.rows[i].geom.x = sc.rows[i].attrs["long"]
              /\ sc_gdf.rows[i].geom.y = sc.rows[i].attrs["lat"]

C2_Witness ==
    /\ sc_gdf.bound
    /\ AllCoordinatesValid(sc)
    /\ Len(sc_gdf.rows) = 2
    /\ sc_gdf.rows[1].geom # sc_gdf.rows[2].geom

\* C3 (as claimed): layers of differing CRS are never drawn onto the same
\* canvas: no image holds artists of two different CRS identifiers.
C3_NoMixedCrsImage ==
    \A i \in 1..Len(images) :
        \A a, b \in Range(images[i].painted) :
            (a.crs # NoCRS /\ b.crs # NoCRS) => a.crs = b.crs

\* A coordinate the claim calls invalid: NaN, or a text that is no number.
InvalidCoordinate(v) ==
    \/ v.t = "nan"
    \/ v.t = "str" /\ v.s \notin DOMAIN FloatLiterals

\* C4 (as claimed): the Builder returns no point collection when a designated
\* column is absent or a designated coordinate is NaN or no number.
C4_BuilderRejectsInvalid ==
    sc_gdf.bound =>
        /\ {"long", "lat"} \subseteq sc.cols
        /\ \A i \in 1..Len(sc.rows) :
              /\ ~InvalidCoordinate(sc.rows[i].attrs["long"])
              /\ ~InvalidCoordinate(sc.rows[i].attrs["lat"])

PosIn(a, artists) ==
    IF a \in Range(artists) THEN CHOOSE i \in 1..Len(artists) : artists[i] = a ELSE 0

\* The layers of a cell that have Features, in the order the cell plots them.
DrawnLayers(cell) ==
    SelectSeq(CellLayers(cell), LAMBDA n : FrameOf(n).rows # <<>>)

\* C6 (as claimed): in every image the paint order is the order in which the
\* layers were given, so that a later layer is painted over every earlier one.
C6_PaintOrderIsSequenceOrder ==
    \A i \in 1..Len(images) : images[i].painted = images[i].added

\* C6 (amended): every layer that has Features is added to the canvas exactly
\* once, in the given order, and the image contains all of them; they are
\* painted by ascending z-order and, within one z-order, in the given order:
\* a line layer (z-order 2) is painted over every polygon and point layer
\* (z-order 1) wherever it is in the sequence.  In the three-layer overlay the
\* paint order is region polygon, shopping-centre points, roads.
C6_PaintByZOrder ==
    \A i \in 1..Len(images) :
        LET im == images[i]
        IN /\ LayerNames(im.added) = DrawnLayers(im.cell)
           /\ Len(im.painted) = Len(im.added)
           /\ Range(im.painted) = Range(im.added)
           /\ \A j, k \in 1..Len(im.painted) :
                 j < k =>
                    /\ im.painted[j].zorder <= im.painted[k].zorder
                    /\ im.painted[j].zorder = im.painted[k].zorder
                          => PosIn(im.painted[j], im.added) < PosIn(im.painted[k], im.added)
           /\ \A j \in 1..Len(im.painted) :
                 im.painted[j].zorder = (IF im.painted[j].kind = "LineString" THEN 2 ELSE 1)
           /\ (im.cell = "cell12" /\ Len(im.added) = 3)
                 => LayerNames(im.painted) = <<"ncr", "sc_gdf", "ncr_roads">>

C6_Witness ==
    /\ pc = "done"
    /\ Len(images) = 5
    /\ LayerNames(images[5].added) = <<"ncr_roads", "ncr", "sc_gdf">>
    /\ LayerNames(images[5].painted) = <<"ncr", "sc_gdf", "ncr_roads">>

\* C7 (as claimed): a collection the Loader returns has a CRS that is not
\* null and is the CRS its file declares.
C7_LoaderCrsNonNull ==
    /\ gdf.bound => gdf.crs # NoCRS /\ gdf.crs = fs.adm2.crs
    /\ gdf_reg.bound => gdf_reg.crs # NoCRS /\ gdf_reg.crs = fs.adm1.crs
    /\ ncr_roads.bound => ncr_roads.crs # NoCRS /\ ncr_roads.crs = fs.roads.crs

\* C8: a run that has stopped at a failing cell takes no further step (no
\* later cell runs, the failing cell is not run again), and the step that
\* stops it records the failing cell and leaves every output of the earlier
\* cells as it was.
C8_AbortIsFinal ==
    [][/\ pc # "aborted"
       /\ pc' = "aborted" => /\ err'.cell = pc
                             /\ UNCHANGED data]_vars

C8_Witness ==
    /\ pc = "aborted"
    /\ err.cell = "cell11"
    /\ sc.bound
    /\ ncr.bound
    /\ ncr.rows # <<>>
    /\ Len(images) = 3

\* C9: the Filter cell leaves the source collection gdf_reg as it was
\* (Features, order, attributes, CRS), and the collection it returns has the
\* source's CRS and columns.
C9_FilterLeavesSource ==
    [][pc = "cell10" =>
          /\ gdf_reg' = gdf_reg
          /\ pc' = "cell11" => /\ ncr'.bound
                               /\ ncr'.crs = gdf_reg.crs
                               /\ ncr'.cols = gdf_reg.cols]_vars

C9_Witness ==
    /\ pc = "cell11"
    /\ ncr.bound
    /\ Len(gdf_reg.rows) = 2
    /\ Len(ncr.rows) = 1
    /\ ncr.crs = "EPSG:32651"

\* Every image holds only artists of the layers its own cell passed.
ImagesHoldOwnLayers ==
    \A i \in 1..Len(images) :
        \A a \in Range(images[i].added) \cup Range(images[i].painted) :
            a.layer \in Range(CellLayers(images[i].cell))

\* A collection that is bound stays as it is.
FramesKept ==
    /\ sc.bound => sc' = sc
    /\ gdf.bound => gdf' = gdf
    /\ gdf_reg.bound => gdf_reg' = gdf_reg
    /\ ncr.bound => ncr' = ncr
    /\ sc_gdf.bound => sc_gdf' = sc_gdf
    /\ ncr_roads.bound => ncr_roads' = ncr_roads

\* C10: after any step every image holds only the layers passed to its own
\* render, never a layer drawn by an earlier render, and a step that renders
\* leaves the earlier images and every collection already built unchanged.
C10_RenderFresh ==
    [][/\ ImagesHoldOwnLayers'
       /\ Len(images') > Len(images) =>
             /\ FramesKept
             /\ SubSeq(images', 1, Len(images)) = images]_vars

C10_Witness ==
    /\ pc = "done"
    /\ Len(images) = 5
    /\ Len(images[4].painted) = 2
    /\ Len(images[5].painted) = 3

====
